---- MODULE Spec2Model ----
(***************************************************************************)
(* Model of the portfolio backtesting service: the HTTP handler            *)
(* run_portfolio_analysis (portfolio/views.py) and the engine              *)
(* SimpleBacktestEngine (portfolio/backtesting.py).                        *)
(*                                                                         *)
(* Floating point numbers are modelled as exact rationals extended with    *)
(* NaN, +Infinity and -Infinity (IEEE-754 rules for the special values,    *)
(* no rounding error, no signed zero).                                     *)
(***************************************************************************)
EXTENDS Integers, Sequences, FiniteSets, TLC

(***************************************************************************)
(* Extended rational numbers: the values of Python float / numpy.float64.  *)
(***************************************************************************)
RECURSIVE GCD(_, _)
GCD(a, b) == IF b = 0 THEN a ELSE GCD(b, a % b)

AbsInt(n) == IF n < 0 THEN -n ELSE n

NaN == [k |-> "nan", n |-> 0, d |-> 1]

PInf == [k |-> "inf", n |-> 1, d |-> 1]

NInf == [k |-> "inf", n |-> -1, d |-> 1]

\* the finite number n/d (d # 0), in lowest terms with a positive denominator
Fin(n, d) ==
    LET g == GCD(AbsInt(n), AbsInt(d))
        s == IF d < 0 THEN -1 ELSE 1
    IN  [k |-> "fin", n |-> (s * n) \div g, d |-> AbsInt(d) \div g]

Num(i) == [k |-> "fin", n |-> i, d |-> 1]

IsNaN(x) == x.k = "nan"

IsInf(x) == x.k = "inf"

IsFinite(x) == x.k = "fin"

Sign(x) == IF x.n > 0 THEN 1 ELSE IF x.n < 0 THEN -1 ELSE 0

Neg(x) == [x EXCEPT !.n = -x.n]

Add(x, y) ==
    IF IsNaN(x) \/ IsNaN(y) THEN NaN
    ELSE IF IsInf(x) /\ IsInf(y) THEN (IF x.n = y.n THEN x ELSE NaN)
    ELSE IF IsInf(x) THEN x
    ELSE IF IsInf(y) THEN y
    ELSE LET g == GCD(x.d, y.d)
         IN  Fin(x.n * (y.d \div g) + y.n * (x.d \div g), (x.d \div g) * y.d)

Sub(x, y) == Add(x, Neg(y))

Mul(x, y) ==
    IF IsNaN(x) \/ IsNaN(y) THEN NaN
    ELSE IF IsInf(x) \/ IsInf(y)
         THEN (IF Sign(x) * Sign(y) = 0 THEN NaN
               ELSE IF Sign(x) * Sign(y) > 0 THEN PInf ELSE NInf)
    ELSE LET g1 == GCD(AbsInt(x.n), y.d)
             g2 == GCD(AbsInt(y.n), x.d)
         IN  Fin((x.n \div g1) * (y.n \div g2), (x.d \div g2) * (y.d \div g1))

Div(x, y) ==
    IF IsNaN(x) \/ IsNaN(y) THEN NaN
    ELSE IF IsInf(x) /\ IsInf(y) THEN NaN
    ELSE IF IsInf(y) THEN Num(0)
    ELSE IF IsInf(x) THEN (IF Sign(y) < 0 THEN Neg(x) ELSE x)
    ELSE IF y.n = 0
         THEN (IF x.n = 0 THEN NaN ELSE IF x.n > 0 THEN PInf ELSE NInf)
    ELSE Mul(x, Fin(y.d, y.n))

\* x > y on floats: False whenever an operand is NaN
Gt(x, y) ==
    IF IsNaN(x) \/ IsNaN(y) THEN FALSE
    ELSE IF IsInf(x) THEN (x.n > 0 /\ x # y)
    ELSE IF IsInf(y) THEN y.n < 0
    ELSE x.n * y.d > y.n * x.d

\* abs() on floats
Abs(x) == IF x.n < 0 THEN Neg(x) ELSE x

\* x != y on floats: True whenever an operand is NaN
FloatNe(x, y) == IsNaN(x) \/ IsNaN(y) \/ x # y

\* long division: <<quotient, remainder>> of (r * scale) by d, one decimal digit
\* at a time (scale is a power of 10)
RECURSIVE ScaledDiv(_, _, _)
ScaledDiv(r, d, scale) ==
    IF scale = 1 THEN <<0, r>>
    ELSE LET digit == (r * 10) \div d
             rest == ScaledDiv((r * 10) % d, d, scale \div 10)
         IN  <<digit * (scale \div 10) + rest[1], rest[2]>>

\* round(x, digits) with scale = 10^digits: round half to even, NaN and the
\* infinities are kept
RoundTo(x, scale) ==
    IF ~IsFinite(x) THEN x
    ELSE LET a == AbsInt(x.n)
             frac == ScaledDiv(a % x.d, x.d, scale)
             q == (a \div x.d) * scale + frac[1]
             r == frac[2]
             up == (2 * r > x.d) \/ (2 * r = x.d /\ q % 2 = 1)
             m == IF up THEN q + 1 ELSE q
         IN  Fin(Sign(x) * m, scale)

Round2(x) == RoundTo(x, 100)

Round3(x) == RoundTo(x, 1000)

(***************************************************************************)
(* Calendar dates <<year, month, day>> (pandas Timestamp at midnight).     *)
(***************************************************************************)
IsLeap(y) == (y % 4 = 0 /\ y % 100 # 0) \/ y % 400 = 0

DaysInMonth(y, m) ==
    IF m = 2 THEN (IF IsLeap(y) THEN 29 ELSE 28)
    ELSE IF m \in {4, 6, 9, 11} THEN 30 ELSE 31

DateLt(a, b) ==
    \/ a[1] < b[1]
    \/ a[1] = b[1] /\ a[2] < b[2]
    \/ a[1] = b[1] /\ a[2] = b[2] /\ a[3] < b[3]

DateLe(a, b) == a = b \/ DateLt(a, b)

\* faulty variant of AddMonths: the date is not moved
AddMonthsStuck(date, k) == date

\* date + pd.DateOffset(months=k): the day is clamped to the month's length
AddMonths(date, k) ==
    LET t == (date[2] - 1) + k
        y == date[1] + (t \div 12)
        m == (t % 12) + 1
        dim == DaysInMonth(y, m)
    IN  <<y, m, IF date[3] > dim THEN dim ELSE date[3]>>

(***************************************************************************)
(* Bounds of the model.                                                    *)
(***************************************************************************)
\* largest number of entries in the request's portfolio list
MaxMix == 2

(***************************************************************************)
(* The database the engine reads (Data Access): a fixed set of portfolios, *)
(* asset mappings, prices and benchmarks.                                  *)
(***************************************************************************)
Jan29 == <<2023, 1, 29>>

Jan30 == <<2023, 1, 30>>

Jan31 == <<2023, 1, 31>>

Feb28 == <<2023, 2, 28>>

Apr30 == <<2023, 4, 30>>

Jul30 == <<2023, 7, 30>>

Jan30Y2 == <<2024, 1, 30>>

Jan31Y2 == <<2024, 1, 31>>

\* Portfolio rows
PortfolioIds == {1, 2, 3, 4}

\* AssetPortfolioMapping rows: portfolio 1 holds A; portfolio 2 holds B and C;
\* portfolio 3 holds X (no prices) and Y (a single price); the only mapping
\* of portfolio 4 becomes effective after every end date of the model.
AssetMappings ==
    << [portfolio |-> 1, asset |-> "A", weight |-> Num(1), effective_date |-> <<2023, 1, 1>>],
       [portfolio |-> 2, asset |-> "B", weight |-> Num(1), effective_date |-> <<2023, 1, 1>>],
       [portfolio |-> 2, asset |-> "C", weight |-> Fin(1, 2), effective_date |-> <<2023, 1, 1>>],
       [portfolio |-> 3, asset |-> "X", weight |-> Fin(1, 2), effective_date |-> <<2023, 1, 1>>],
       [portfolio |-> 3, asset |-> "Y", weight |-> Fin(1, 2), effective_date |-> <<2023, 1, 1>>],
       [portfolio |-> 4, asset |-> "A", weight |-> Num(1), effective_date |-> <<2024, 6, 1>>] >>

Px(date, price) == [date |-> date, adjusted_close |-> Num(price)]

\* HistoricalPrice rows per asset, ordered by date
HistoricalPrices ==
    [a \in {"A", "B", "C", "X", "Y", "M"} |->
        CASE a = "A" -> << Px(Jan29, 100), Px(Jan30, 100), Px(Jan31, 200), Px(Feb28, 100),
                           Px(Apr30, 100), Px(Jul30, 100), Px(Jan30Y2, 100) >>
          [] a = "B" -> << Px(Jan29, 100), Px(Jan30, 100), Px(Jan31, 50), Px(Feb28, 0) >>
          [] a = "C" -> << Px(Jan30, 10), Px(Jan31, 15) >>
          [] a = "X" -> << >>
          [] a = "Y" -> << Px(Feb28, 7) >>
          [] a = "M" -> << Px(Jan30, 50), Px(Jan31, 55), Px(Apr30, 55), Px(Jan30Y2, 66) >>]

\* Benchmark rows: id -> symbol; benchmark 2 names a symbol with no Asset row
Benchmarks == [b \in {1, 2} |-> IF b = 1 THEN "M" ELSE "Q"]

AssetSymbols == DOMAIN HistoricalPrices

(***************************************************************************)
(* pandas helpers. A Series is a sequence of [date, v] ordered by date; a  *)
(* DataFrame is [index: sequence of dates, col: column name -> values].    *)
(***************************************************************************)
Range(s) == {s[i] : i \in 1..Len(s)}

\* a Python list / pandas column given elementwise, as a sequence
AsList(f) == f \o << >>

RECURSIVE SortDates(_)
SortDates(S) ==
    IF S = {} THEN << >>
    ELSE LET m == CHOOSE x \in S : \A y \in S : DateLe(x, y)
         IN  <<m>> \o SortDates(S \ {m})

SeriesDates(s) == {s[i].date : i \in 1..Len(s)}

\* the value of series s on a date it holds
ValueAt(s, date) == (CHOOSE i \in 1..Len(s) : s[i].date = date)

\* Series.dropna()
DropNa(s) == SelectSeq(s, LAMBDA e : ~IsNaN(e.v))

\* Series.pct_change() of a series without missing values: v[t]/v[t-1] - 1,
\* NaN for the first element
PctChange(s) ==
    AsList([i \in 1..Len(s) |->
        [date |-> s[i].date,
         v |-> IF i = 1 THEN NaN ELSE Sub(Div(s[i].v, s[i - 1].v), Num(1))]])

\* series * scalar
Scale(s, w) == AsList([i \in 1..Len(s) |-> [date |-> s[i].date, v |-> Mul(s[i].v, w)]])

\* sum of a sequence of floats that skips NaN (pandas skipna=True)
RECURSIVE SumSkipNa(_)
SumSkipNa(vals) ==
    IF vals = << >> THEN Num(0)
    ELSE IF IsNaN(Head(vals)) THEN SumSkipNa(Tail(vals))
    ELSE Add(Head(vals), SumSkipNa(Tail(vals)))

\* pd.concat(list, axis=1).sum(axis=1): outer join on the dates, a series
\* absent on a date gives NaN there, and the row sum skips NaN
ConcatSum(list) ==
    LET dates == SortDates(UNION {SeriesDates(list[j]) : j \in 1..Len(list)})
        cell(j, date) == IF date \in SeriesDates(list[j])
                         THEN list[j][ValueAt(list[j], date)].v ELSE NaN
    IN  AsList([i \in 1..Len(dates) |->
            [date |-> dates[i],
             v |-> SumSkipNa(AsList([j \in 1..Len(list) |-> cell(j, dates[i])]))]])

\* Series.fillna(x)
FillNa(s, x) ==
    AsList([i \in 1..Len(s) |->
        [date |-> s[i].date, v |-> IF IsNaN(s[i].v) THEN x ELSE s[i].v]])

(***************************************************************************)
(* The requests the model sends.                                           *)
(***************************************************************************)
\* request.data.get(...) of an absent date
NoDate == <<0, 0, 0>>

\* an absent (or zero) benchmark_id: `not benchmark_id` holds
NoBenchmark == 0

\* a portfolio entry without a 'weight' key
Missing == [k |-> "missing", n |-> 0, d |-> 1]

\* ids a request may name: the four portfolios and one unknown id
RequestIds == PortfolioIds \cup {9}

\* the portfolio entries a request may carry: every id at 50 percent, the
\* portfolios with mappings in effect at 100 percent, 50.05 percent (inside the
\* 0.1 tolerance with another 50), "nan", or no weight
MixEntries ==
    [portfolio_id : RequestIds, weight : {Num(50)}]
    \cup [portfolio_id : {1, 2, 3}, weight : {Num(100)}]
    \cup [portfolio_id : {1}, weight : {Fin(1001, 20)}]
    \cup [portfolio_id : {1, 3}, weight : {NaN}]
    \cup [portfolio_id : {2}, weight : {Missing}]

RECURSIVE SeqsUpTo(_, _)
SeqsUpTo(S, n) ==
    IF n = 0 THEN {<< >>}
    ELSE LET shorter == SeqsUpTo(S, n - 1)
         IN  shorter \cup {Append(q, e) : q \in {x \in shorter : Len(x) = n - 1}, e \in S}

Frequencies == {"never", "monthly", "quarterly", "semi_annually", "annually", "weekly"}

\* (start_date, end_date) pairs a request may carry
DateRanges == {<<NoDate, Jan31Y2>>, <<Jan29, NoDate>>, <<Jan29, Jan31Y2>>, <<Jan31, Jan31Y2>>}

Requests ==
    {[portfolios |-> mix, benchmark_id |-> b, rebalance_frequency |-> f,
      start_date |-> r[1], end_date |-> r[2]] :
        mix \in SeqsUpTo(MixEntries, MaxMix), b \in {NoBenchmark, 1, 2, 7},
        f \in Frequencies, r \in DateRanges}

(***************************************************************************)
(* State.                                                                  *)
(***************************************************************************)
VARIABLES
    request,             \* request.data of the POST being served
    pc,                  \* position of the handler / engine
    engine,              \* the SimpleBacktestEngine instance (its __init__ fields)
    individual_returns,  \* DataFrame of per-portfolio returns
    target_weights,      \* portfolio id -> weight / 100
    current_weights,     \* the simulator's weight vector
    rebalance_dates,     \* the simulator's schedule of rebalance dates
    loop_i,              \* index i of the simulator's day loop (0-based)
    portfolio_values,    \* the simulator's value series
    portfolio_returns,   \* the blended return series
    benchmark_returns,   \* the benchmark's return series
    clean_metrics,       \* summary statistics
    comparison_metrics,  \* benchmark-relative statistics
    time_series,         \* output of _generate_time_series
    results,             \* what run_backtest returned
    raised,              \* message of the exception run_backtest raised
    unrounded_values,    \* history: the blend's value series before rounding
    response,            \* the HTTP response
    day_log,             \* history: one record per simulated day
    call                 \* a method of the engine called on its own: its frame

vars == << request, pc, engine, individual_returns, target_weights, current_weights,
           rebalance_dates, loop_i, portfolio_values, portfolio_returns, benchmark_returns,
           clean_metrics, comparison_metrics, time_series, unrounded_values,
           results, raised, response, day_log, call >>

\* no method is being called on its own
NoCall == [method |-> "none"]

NoEngine ==
    [constructed |-> FALSE, portfolio_mix |-> << >>, benchmark_id |-> NoBenchmark,
     start_date |-> NoDate, end_date |-> NoDate, rebalance_frequency |-> "never"]

EmptyFrame == [index |-> << >>, ids |-> << >>, col |-> << >>]

NoResults == [kind |-> "none"]

\* Response(body, status): the keys of the body and their values
NoResponse == [code |-> 0, keys |-> {}, error |-> << >>, status |-> "", results |-> NoResults]

ErrorResponse(code, message) ==
    [code |-> code, keys |-> {"error"}, error |-> message, status |-> "", results |-> NoResults]

Init ==
    /\ request \in Requests
    /\ pc = "request"
    /\ engine = NoEngine
    /\ individual_returns = EmptyFrame
    /\ target_weights = << >>
    /\ current_weights = << >>
    /\ rebalance_dates = << >>
    /\ loop_i = 0
    /\ portfolio_values = << >>
    /\ portfolio_returns = << >>
    /\ benchmark_returns = << >>
    /\ clean_metrics = << >>
    /\ comparison_metrics = << >>
    /\ time_series = << >>
    /\ unrounded_values = << >>
    /\ results = NoResults
    /\ raised = << >>
    /\ response = NoResponse
    /\ day_log = << >>
    /\ call = NoCall

(***************************************************************************)
(* views.run_portfolio_analysis: validation and engine construction.       *)
(***************************************************************************)
\* float(p.get('weight', 0))
ViewWeight(p) == IF p.weight = Missing THEN Num(0) ELSE p.weight

\* sum(float(p.get('weight', 0)) for p in portfolios)
RECURSIVE TotalWeightFrom(_, _)
TotalWeightFrom(acc, portfolios) ==
    IF portfolios = << >> THEN acc
    ELSE TotalWeightFrom(Add(acc, ViewWeight(Head(portfolios))), Tail(portfolios))

TotalWeight(portfolios) == TotalWeightFrom(Num(0), portfolios)

\* abs(total_weight - 100.0) > 0.1
WeightsRejected(portfolios) ==
    Gt(Abs(Sub(TotalWeight(portfolios), Num(100))), Fin(1, 10))

\* Benchmark.objects.filter(id=benchmark_id).exists()
BenchmarkExists(id) == id \in DOMAIN Benchmarks

\* the 400 answer of the first validation that fails, "" when all pass
ValidationError(req) ==
    IF req.portfolios = << >> THEN "No portfolios selected"
    ELSE IF req.benchmark_id = NoBenchmark THEN "No benchmark selected"
    ELSE IF req.start_date = NoDate \/ req.end_date = NoDate
         THEN "Start and end dates required"
    ELSE IF WeightsRejected(req.portfolios) THEN "Portfolio weights must sum to 100%"
    ELSE IF ~BenchmarkExists(req.benchmark_id) THEN "Invalid benchmark selected"
    ELSE ""

EngineInit(req) ==
    [constructed |-> TRUE, portfolio_mix |-> req.portfolios,
     benchmark_id |-> req.benchmark_id, start_date |-> req.start_date,
     end_date |-> req.end_date, rebalance_frequency |-> req.rebalance_frequency]

\* lines 59-96 of the handler: answer 400, or construct the engine
Validate ==
    /\ pc = "request"
    /\ UNCHANGED call
    /\ IF ValidationError(request) # ""
       THEN /\ response' = ErrorResponse(400, <<ValidationError(request)>>)
            /\ pc' = "responded"
            /\ UNCHANGED engine
       ELSE /\ engine' = EngineInit(request)
            /\ pc' = "run_backtest"
            /\ UNCHANGED response
    /\ UNCHANGED << request, individual_returns, target_weights, current_weights,
                    rebalance_dates, loop_i, portfolio_values, portfolio_returns, benchmark_returns, clean_metrics,
                    comparison_metrics, time_series, unrounded_values, results, raised,
                    day_log >>

(***************************************************************************)
(* Return Calculator.                                                      *)
(***************************************************************************)
\* HistoricalPrice.objects.filter(asset, date__range=[start, end]).order_by('date')
PricesInRange(asset, start, end) ==
    IF asset \notin AssetSymbols THEN << >>
    ELSE SelectSeq(HistoricalPrices[asset],
                   LAMBDA p : DateLe(start, p.date) /\ DateLe(p.date, end))


\* faulty variant of AssetReturns: the undefined first return is kept (no dropna)
AssetReturnsKeepFirst(prices) ==
    PctChange(AsList([i \in 1..Len(prices) |->
                        [date |-> prices[i].date, v |-> prices[i].adjusted_close]]))

\* price_df.set_index('date')['adjusted_close'] followed by pct_change().dropna()
AssetReturns(prices) ==
    DropNa(PctChange(AsList([i \in 1..Len(prices) |->
                        [date |-> prices[i].date, v |-> prices[i].adjusted_close]])))

\* faulty variant of MappingsOf: the effective date is not looked at
MappingsOfAnyDate(portfolio_id, end) ==
    SelectSeq(AssetMappings, LAMBDA m : m.portfolio = portfolio_id)

\* AssetPortfolioMapping.objects.filter(portfolio, effective_date__lte=end_date)
MappingsOf(portfolio_id, end) ==
    SelectSeq(AssetMappings,
              LAMBDA m : m.portfolio = portfolio_id /\ DateLe(m.effective_date, end))

\* the weighted return series of the mappings whose asset has prices in range
RECURSIVE WeightedAssetReturns(_, _, _)
WeightedAssetReturns(mappings, start, end) ==
    IF mappings = << >> THEN << >>
    ELSE LET m == Head(mappings)
             prices == PricesInRange(m.asset, start, end)
             rest == WeightedAssetReturns(Tail(mappings), start, end)
         IN  IF prices # << >>
             THEN <<Scale(AssetReturns(prices), m.weight)>> \o rest
             ELSE rest

GetSinglePortfolioReturns(portfolio_id, start, end) ==
    IF portfolio_id \notin PortfolioIds THEN << >>
    ELSE LET asset_returns == WeightedAssetReturns(MappingsOf(portfolio_id, end), start, end)
         IN  IF asset_returns # << >>
             THEN FillNa(ConcatSum(asset_returns), Num(0))
             ELSE << >>

\* the keys of a dict filled in the order of the mix: distinct ids, first use first
RECURSIVE DictKeys(_, _)
DictKeys(mix, seen) ==
    IF mix = << >> THEN << >>
    ELSE IF Head(mix).portfolio_id \in seen THEN DictKeys(Tail(mix), seen)
    ELSE <<Head(mix).portfolio_id>>
         \o DictKeys(Tail(mix), seen \cup {Head(mix).portfolio_id})

\* the column of one portfolio over the frame's index, missing values as 0
FrameColumn(series, index) ==
    AsList([i \in 1..Len(index) |->
        IF index[i] \in SeriesDates(series)
        THEN LET v == series[ValueAt(series, index[i])].v
             IN  IF IsNaN(v) THEN Num(0) ELSE v
        ELSE Num(0)])

\* pd.DataFrame(portfolio_returns_dict).fillna(0)
GetIndividualPortfolioReturns(mix, start, end) ==
    LET ids == DictKeys(mix, {})
        series == AsList([j \in 1..Len(ids) |-> GetSinglePortfolioReturns(ids[j], start, end)])
        index == SortDates(UNION {SeriesDates(series[j]) : j \in 1..Len(ids)})
        columns == AsList([j \in 1..Len(ids) |-> FrameColumn(series[j], index)])
    IN  [index |-> index,
         ids |-> ids,
         col |-> [id \in Range(ids) |->
                    columns[CHOOSE j \in 1..Len(ids) : ids[j] = id]]]

\* DataFrame.empty
FrameEmpty(df) == df.index = << >> \/ df.ids = << >>

(***************************************************************************)
(* Portfolio composition and the degraded-data results.                    *)
(***************************************************************************)
\* portfolio_config['weight'] raises KeyError when the entry has no weight
HasMissingWeight(mix) == \E i \in 1..Len(mix) : mix[i].weight = Missing

\* str(KeyError('weight'))
KeyErrorWeight == "'weight'"

\* _get_portfolio_composition, for a mix in which every entry has a weight
GetPortfolioComposition(mix) ==
    [i \in 1..Len(mix) |->
        [name |-> IF mix[i].portfolio_id \in PortfolioIds THEN "found" ELSE "Not Found",
         weight |-> mix[i].weight]]

EmptyTimeSeries == [dates |-> << >>, portfolio_values |-> << >>, benchmark_values |-> << >>]

\* the error-annotated result of lines 57-65 and 71-79: returned as built
DegradedResult(message, eng) ==
    [kind |-> "degraded",
     error |-> message,
     performance_metrics |-> << >>,
     time_series |-> EmptyTimeSeries,
     portfolio_composition |-> GetPortfolioComposition(eng.portfolio_mix),
     rebalancing_events |-> << >>,
     rebalancing_frequency |-> eng.rebalance_frequency]


\* faulty variant of BacktestFailed: the cause is re-raised without the prefix
BacktestFailedBare(cause) == <<cause>>

\* raise Exception(f"Backtest failed: {str(e)}")
BacktestFailed(cause) == <<"Backtest failed: ", cause>>

(***************************************************************************)
(* run_backtest, step 1 (lines 53-65).                                     *)
(***************************************************************************)
RunBacktestStart ==
    /\ pc = "run_backtest"
    /\ UNCHANGED call
    /\ LET df == GetIndividualPortfolioReturns(engine.portfolio_mix, engine.start_date,
                                               engine.end_date)
       IN  /\ individual_returns' = df
           /\ IF FrameEmpty(df)
              THEN IF HasMissingWeight(engine.portfolio_mix)
                   THEN /\ raised' = BacktestFailed(KeyErrorWeight)
                        /\ pc' = "raised"
                        /\ UNCHANGED results
                   ELSE /\ results' = DegradedResult(
                                "No portfolio data found for the specified date range", engine)
                        /\ pc' = "returned"
                        /\ UNCHANGED raised
              ELSE /\ pc' = "apply_rebalancing"
                   /\ UNCHANGED << results, raised >>
    /\ UNCHANGED << request, engine, target_weights, current_weights, rebalance_dates, loop_i,
                    portfolio_values, portfolio_returns, benchmark_returns, clean_metrics,
                    comparison_metrics, time_series, unrounded_values, response, day_log >>

(***************************************************************************)
(* Rebalancing Simulator.                                                  *)
(***************************************************************************)
\* float(portfolio_config['weight']) / 100.0
TargetWeightOf(entry) == Div(entry.weight, Num(100))

\* lines 172-177: a dict keyed by portfolio id, a later entry overwrites
TargetWeights(mix) ==
    [id \in Range(DictKeys(mix, {})) |->
        LET last == CHOOSE i \in 1..Len(mix) :
                        /\ mix[i].portfolio_id = id
                        /\ \A j \in (i + 1)..Len(mix) : mix[j].portfolio_id # id
        IN  TargetWeightOf(mix[last])]

\* the plain Python sum  0 + x1 + x2 + ...
RECURSIVE SumFrom(_, _)
SumFrom(acc, vals) ==
    IF vals = << >> THEN acc ELSE SumFrom(Add(acc, Head(vals)), Tail(vals))


\* faulty variant of NeverCombined: a buy-and-hold blend whose weights drift with performance
RECURSIVE DriftingBlendFrom(_, _, _)
DriftingBlendFrom(df, weights, row) ==
    IF row > Len(df.index) THEN << >>
    ELSE LET keys == SelectSeq(df.ids, LAMBDA id : id \in DOMAIN weights)
             r == SumSkipNa(AsList([j \in 1..Len(keys) |->
                                      Mul(df.col[keys[j]][row], weights[keys[j]])]))
             next == [id \in DOMAIN weights |->
                        Div(Mul(weights[id], Add(Num(1), df.col[id][row])), Add(Num(1), r))]
         IN  <<[date |-> df.index[row], v |-> r]>> \o DriftingBlendFrom(df, next, row + 1)

NeverCombinedDrifting(df, tw) == DriftingBlendFrom(df, tw, 1)

\* lines 181-189: each column times its weight, concatenated and summed by row
NeverCombined(df, tw) ==
    LET keys == SelectSeq(df.ids, LAMBDA id : id \in DOMAIN tw)
    IN  AsList([i \in 1..Len(df.index) |->
            [date |-> df.index[i],
             v |-> SumSkipNa(AsList([j \in 1..Len(keys) |->
                                       Mul(df.col[keys[j]][i], tw[keys[j]])]))]])

\* the policy period as pd.DateOffset, 0 months for a policy with no period
PeriodMonths(frequency) ==
    CASE frequency = "monthly" -> 1
      [] frequency = "quarterly" -> 3
      [] frequency = "semi_annually" -> 6
      [] frequency = "annually" -> 12
      [] OTHER -> 0

\* date_index as the loop reads it: the dates of a DatetimeIndex, or every day of
\* pd.date_range(start, end, freq='D')
DatesIndex(dates) == [daily |-> FALSE, dates |-> dates]

DailyIndex == [daily |-> TRUE, dates |-> {}]

\* the while loop of _get_rebalancing_dates; the loop only visits dates between
\* date_index[0] and date_index[-1], all of which a daily index holds
RECURSIVE RebalanceLoop(_, _, _, _)
RebalanceLoop(current_date, end_date, date_index, frequency) ==
    IF ~DateLe(current_date, end_date) THEN << >>
    ELSE LET here == IF date_index.daily \/ current_date \in date_index.dates
                     THEN <<current_date>> ELSE << >>
         IN  IF PeriodMonths(frequency) = 0 THEN here
             ELSE here \o RebalanceLoop(AddMonths(current_date, PeriodMonths(frequency)),
                                        end_date, date_index, frequency)

\* _get_rebalancing_dates(date_index) for a DatetimeIndex given as a sequence
GetRebalancingDates(index, frequency) ==
    IF frequency = "never" THEN << >>
    ELSE RebalanceLoop(index[1], index[Len(index)], DatesIndex(Range(index)), frequency)

\* the fixed starting value of the simulation
StartingValue == 100000

\* lines 165-209: target weights, then the `never` blend or the simulator's set-up
ApplyRebalancingLogic ==
    /\ pc = "apply_rebalancing"
    /\ UNCHANGED call
    /\ IF HasMissingWeight(engine.portfolio_mix)
       THEN /\ raised' = BacktestFailed(KeyErrorWeight)
            /\ pc' = "raised"
            /\ UNCHANGED << target_weights, current_weights, rebalance_dates, loop_i,
                            portfolio_values, portfolio_returns >>
       ELSE LET tw == TargetWeights(engine.portfolio_mix)
            IN  /\ target_weights' = tw
                /\ UNCHANGED raised
                /\ IF engine.rebalance_frequency = "never"
                   THEN /\ portfolio_returns' = NeverCombined(individual_returns, tw)
                        /\ pc' = "blended"
                        /\ UNCHANGED << current_weights, rebalance_dates, loop_i,
                                        portfolio_values >>
                   ELSE /\ rebalance_dates' = GetRebalancingDates(individual_returns.index,
                                                                  engine.rebalance_frequency)
                        /\ portfolio_values' =
                              [i \in 1..Len(individual_returns.index) |->
                                  IF i = 1 THEN Num(StartingValue) ELSE NaN]
                        /\ current_weights' = tw
                        /\ loop_i' = 1
                        /\ pc' = "simulate"
                        /\ UNCHANGED portfolio_returns
    /\ UNCHANGED << request, engine, individual_returns, benchmark_returns, clean_metrics,
                    comparison_metrics, time_series, unrounded_values, results, response,
                    day_log >>

\* line 224-227: day_return = 0 + sum of return * weight over the weight dict
DayReturn(df, weights, row) ==
    LET keys == SelectSeq(df.ids, LAMBDA id : id \in DOMAIN weights)
    IN  SumFrom(Num(0), AsList([j \in 1..Len(keys) |->
                                   Mul(df.col[keys[j]][row], weights[keys[j]])]))

\* faulty variant of DriftWeights: the weights never drift
DriftWeightsNever(df, weights, row, day_return) == weights

\* lines 233-239: the weights after the day; left alone when day_return == 0
DriftWeights(df, weights, row, day_return) ==
    IF FloatNe(day_return, Num(0))
    THEN [id \in DOMAIN weights |->
            Div(Mul(weights[id], Add(Num(1), df.col[id][row])), Add(Num(1), day_return))]
    ELSE weights


\* faulty variant of WeightsForDay: the reset to the target weights is forgotten
WeightsForDayNoReset(date, schedule, weights, tw) == weights

\* lines 219-221: the weights the day is computed with
WeightsForDay(date, schedule, weights, tw) ==
    IF date \in Range(schedule) THEN tw ELSE weights

\* one iteration (i >= 1) of the day loop, lines 212-239
SimulateDay ==
    /\ pc = "simulate"
    /\ UNCHANGED call
    /\ loop_i < Len(individual_returns.index)
    /\ LET row == loop_i + 1
           date == individual_returns.index[row]
           used == WeightsForDay(date, rebalance_dates, current_weights, target_weights)
           day_return == DayReturn(individual_returns, used, row)
       IN  /\ portfolio_values' =
                 [portfolio_values EXCEPT ![row] =
                      Mul(portfolio_values[row - 1], Add(Num(1), day_return))]
           /\ current_weights' = DriftWeights(individual_returns, used, row, day_return)
           /\ day_log' = Append(day_log,
                 [date |-> date, reset |-> date \in Range(rebalance_dates),
                  before |-> current_weights, used |-> used, day_return |-> day_return])
    /\ loop_i' = loop_i + 1
    /\ UNCHANGED << request, pc, engine, individual_returns, target_weights, rebalance_dates,
                    portfolio_returns, benchmark_returns, clean_metrics, comparison_metrics,
                    time_series, unrounded_values, results, raised, response >>

\* Series.ffill(): a missing value takes the last value before it
RECURSIVE FFillFrom(_, _)
FFillFrom(s, last) ==
    IF s = << >> THEN << >>
    ELSE LET v == IF IsNaN(Head(s).v) THEN last ELSE Head(s).v
         IN  <<[date |-> Head(s).date, v |-> v]>> \o FFillFrom(Tail(s), v)

\* portfolio_values.pct_change().dropna(); pad: whether this pandas forward-fills
\* missing values first (fill_method='pad', the default before pandas 3)
ValuesToReturns(index, values, pad) ==
    LET s == AsList([i \in 1..Len(index) |-> [date |-> index[i], v |-> values[i]]])
    IN  DropNa(PctChange(IF pad THEN FFillFrom(s, NaN) ELSE s))

\* lines 241-245
FinishRebalancedReturns ==
    /\ pc = "simulate"
    /\ UNCHANGED call
    /\ loop_i = Len(individual_returns.index)
    /\ \E pad \in BOOLEAN :
          portfolio_returns' = ValuesToReturns(individual_returns.index, portfolio_values, pad)
    /\ pc' = "blended"
    /\ UNCHANGED << request, engine, individual_returns, target_weights, current_weights,
                    rebalance_dates, loop_i, portfolio_values, benchmark_returns,
                    clean_metrics, comparison_metrics, time_series, unrounded_values,
                    results, raised, response, day_log >>

(***************************************************************************)
(* Benchmark returns (lines 373-416).                                      *)
(***************************************************************************)
GetBenchmarkReturns(benchmark_id, start, end) ==
    IF benchmark_id \notin DOMAIN Benchmarks THEN << >>
    ELSE LET prices == PricesInRange(Benchmarks[benchmark_id], start, end)
         IN  IF prices # << >> THEN AssetReturns(prices) ELSE << >>

\* the error-annotated result of lines 70-79, or on to the benchmark (line 82)
CheckBlendAndGetBenchmark ==
    /\ pc = "blended"
    /\ UNCHANGED call
    /\ IF portfolio_returns = << >>
       THEN /\ results' = DegradedResult("Unable to calculate portfolio returns", engine)
            /\ pc' = "returned"
            /\ UNCHANGED benchmark_returns
       ELSE /\ benchmark_returns' = GetBenchmarkReturns(engine.benchmark_id, engine.start_date,
                                                        engine.end_date)
            /\ pc' = "perf_stats"
            /\ UNCHANGED results
    /\ UNCHANGED << request, engine, individual_returns, target_weights, current_weights,
                    rebalance_dates, loop_i, portfolio_values, portfolio_returns,
                    clean_metrics, comparison_metrics, time_series, unrounded_values,
                    raised, response, day_log >>

(***************************************************************************)
(* Performance Analyzer.                                                   *)
(***************************************************************************)
MetricNames ==
    {"Annual return", "Annual volatility", "Sharpe ratio", "Max drawdown", "Sortino ratio"}

\* what pyfolio's perf_stats may give for every statistic: a finite number, NaN,
\* an infinity (pyfolio is not part of this repository)
PerfStatSamples == {Fin(1, 8), NaN, PInf}

\* lines 89-96: NaN and the infinities become 0.0
CleanMetric(value) == IF IsNaN(value) \/ IsInf(value) THEN Num(0) ELSE value

SeriesValues(s) == AsList([i \in 1..Len(s) |-> s[i].v])

\* Series.mean(): the mean of the values that are not NaN, NaN when there is none
Mean(s) ==
    LET vals == SelectSeq(SeriesValues(s), LAMBDA x : ~IsNaN(x))
    IN  IF vals = << >> THEN NaN ELSE Div(SumFrom(Num(0), vals), Num(Len(vals)))

\* Series.std() * sqrt(252) up to its magnitude: NaN with fewer than two values or
\* an infinite one, 0 when all values agree, else some positive number
AnnualVolatility(s) ==
    LET vals == SelectSeq(SeriesValues(s), LAMBDA x : ~IsNaN(x))
    IN  IF Len(vals) < 2 \/ \E i \in 1..Len(vals) : IsInf(vals[i]) THEN NaN
        ELSE IF \A i \in 1..Len(vals) : vals[i] = vals[1] THEN Num(0)
        ELSE Fin(1, 4)

\* lines 100-106: the fallback when perf_stats raises
FallbackMetrics(returns) ==
    [m \in MetricNames |->
        CASE m = "Annual return" -> Mul(Mean(returns), Num(252))
          [] m = "Annual volatility" -> AnnualVolatility(returns)
          [] OTHER -> Num(0)]

\* lines 85-106
PerfStats ==
    /\ pc = "perf_stats"
    /\ UNCHANGED call
    /\ \/ \E v \in PerfStatSamples : clean_metrics' = [m \in MetricNames |-> CleanMetric(v)]
       \/ clean_metrics' = FallbackMetrics(portfolio_returns)
    /\ pc' = "comparison"
    /\ UNCHANGED << request, engine, individual_returns, target_weights, current_weights,
                    rebalance_dates, loop_i, portfolio_values, portfolio_returns,
                    benchmark_returns, comparison_metrics, time_series, unrounded_values,
                    results, raised, response, day_log >>

\* pd.concat([a, b], axis=1).dropna(): the dates on which both have a value
AlignedDates(a, b) ==
    SelectSeq(SortDates(SeriesDates(a) \cup SeriesDates(b)),
              LAMBDA date : /\ date \in SeriesDates(a) /\ date \in SeriesDates(b)
                            /\ ~IsNaN(a[ValueAt(a, date)].v)
                            /\ ~IsNaN(b[ValueAt(b, date)].v))

\* the column of series s in the aligned frame
AlignedColumn(s, dates) ==
    AsList([i \in 1..Len(dates) |-> [date |-> dates[i], v |-> s[ValueAt(s, dates[i])].v]])

\* (1 + series).prod(), skipping NaN
RECURSIVE ProdOnePlus(_)
ProdOnePlus(s) ==
    IF s = << >> THEN Num(1)
    ELSE IF IsNaN(Head(s).v) THEN ProdOnePlus(Tail(s))
    ELSE Mul(Add(Num(1), Head(s).v), ProdOnePlus(Tail(s)))

\* ((1 + series).prod() - 1) * 100, 0.0 when that is NaN or infinite
TotalReturnPercent(s) ==
    LET total == Mul(Sub(ProdOnePlus(s), Num(1)), Num(100))
    IN  IF IsNaN(total) \/ IsInf(total) THEN Num(0) ELSE total

ZeroComparison ==
    [benchmark_return |-> Num(0), excess_return |-> Num(0), beta |-> Num(0), alpha |-> Num(0)]

\* beta and alpha (lines 468-496) up to their magnitude: each is a finite number
BetaAlphaSamples == {<<Num(0), Num(0)>>, <<Fin(1, 2), Fin(-1, 50)>>}

\* faulty variant of CalculateComparisonMetrics: one aligned row is taken as enough
CalculateComparisonMetricsOneRow(returns, benchmark, beta_alpha) ==
    IF benchmark = << >> \/ returns = << >> THEN ZeroComparison
    ELSE LET dates == AlignedDates(returns, benchmark)
         IN  IF Len(dates) < 1 THEN ZeroComparison
             ELSE LET benchmark_total == TotalReturnPercent(AlignedColumn(benchmark, dates))
                      portfolio_total == TotalReturnPercent(AlignedColumn(returns, dates))
                  IN  [benchmark_return |-> Round2(benchmark_total),
                       excess_return |-> Round2(Sub(portfolio_total, benchmark_total)),
                       beta |-> Round3(beta_alpha[1]),
                       alpha |-> Round2(Mul(beta_alpha[2], Num(100)))]

\* _calculate_comparison_metrics, given the pair (beta, alpha) of lines 468-496
CalculateComparisonMetrics(returns, benchmark, beta_alpha) ==
    IF benchmark = << >> \/ returns = << >> THEN ZeroComparison
    ELSE LET dates == AlignedDates(returns, benchmark)
         IN  IF Len(dates) < 2 THEN ZeroComparison
             ELSE LET benchmark_total == TotalReturnPercent(AlignedColumn(benchmark, dates))
                      portfolio_total == TotalReturnPercent(AlignedColumn(returns, dates))
                  IN  [benchmark_return |-> Round2(benchmark_total),
                       excess_return |-> Round2(Sub(portfolio_total, benchmark_total)),
                       beta |-> Round3(beta_alpha[1]),
                       alpha |-> Round2(Mul(beta_alpha[2], Num(100)))]

\* line 109
ComparisonMetrics ==
    /\ pc = "comparison"
    /\ UNCHANGED call
    /\ \E ba \in BetaAlphaSamples :
          comparison_metrics' = CalculateComparisonMetrics(portfolio_returns,
                                                           benchmark_returns, ba)
    /\ pc' = "time_series"
    /\ UNCHANGED << request, engine, individual_returns, target_weights, current_weights,
                    rebalance_dates, loop_i, portfolio_values, portfolio_returns,
                    benchmark_returns, clean_metrics, time_series, unrounded_values,
                    results, raised, response, day_log >>

(***************************************************************************)
(* Time Series Builder (lines 505-546).                                    *)
(***************************************************************************)

\* faulty variant of CumProdFrom: the product is not carried from one date to the next
CumProdFromNoCarry(s, acc) ==
    AsList([i \in 1..Len(s) |-> [date |-> s[i].date, v |-> Mul(acc, Add(Num(1), s[i].v))]])

\* (1 + series).cumprod(): a NaN stays NaN and is skipped by the product
RECURSIVE CumProdFrom(_, _)
CumProdFrom(s, acc) ==
    IF s = << >> THEN << >>
    ELSE IF IsNaN(Head(s).v)
         THEN <<[date |-> Head(s).date, v |-> NaN]>> \o CumProdFrom(Tail(s), acc)
    ELSE LET next == Mul(acc, Add(Num(1), Head(s).v))
         IN  <<[date |-> Head(s).date, v |-> next]>> \o CumProdFrom(Tail(s), next)

CumProdOnePlus(s) == CumProdFrom(s, Num(1))

\* initial_value of _generate_time_series
InitialValue == 100000

\* line 533: the blend's value series
PortfolioValueSeries(returns) == Scale(CumProdOnePlus(returns), Num(InitialValue))

\* faulty variant of BenchmarkCumulative: no flat line stands in for a missing benchmark
BenchmarkCumulativeNoFlat(returns, benchmark) ==
    IF benchmark # << >>
    THEN LET dates == AlignedDates(returns, benchmark)
         IN  IF dates # << >> THEN CumProdOnePlus(AlignedColumn(benchmark, dates)) ELSE << >>
    ELSE << >>

\* lines 519-529: the benchmark's cumulative series
BenchmarkCumulative(returns, benchmark) ==
    LET flat == AsList([i \in 1..Len(returns) |-> [date |-> returns[i].date, v |-> Num(1)]])
    IN  IF benchmark # << >>
        THEN LET dates == AlignedDates(returns, benchmark)
             IN  IF dates # << >> THEN CumProdOnePlus(AlignedColumn(benchmark, dates))
                 ELSE flat
        ELSE flat

\* lines 537-545 for one series: fillna, round(2), and NaN or infinity replaced
OutputValues(values) ==
    AsList([i \in 1..Len(values) |->
        LET filled == IF IsNaN(values[i].v) THEN Num(InitialValue) ELSE values[i].v
            rounded == Round2(filled)
        IN  IF IsNaN(rounded) \/ IsInf(rounded) THEN Num(InitialValue) ELSE rounded])

Digit(i) == CASE i = 0 -> "0" [] i = 1 -> "1" [] i = 2 -> "2" [] i = 3 -> "3" [] i = 4 -> "4"
              [] i = 5 -> "5" [] i = 6 -> "6" [] i = 7 -> "7" [] i = 8 -> "8" [] i = 9 -> "9"

TwoDigits(n) == Digit((n \div 10) % 10) \o Digit(n % 10)

\* date.strftime('%Y-%m-%d')
StrfDate(date) ==
    TwoDigits(date[1] \div 100) \o TwoDigits(date[1] % 100) \o "-"
    \o TwoDigits(date[2]) \o "-" \o TwoDigits(date[3])

GenerateTimeSeriesOf(returns, benchmark) ==
    IF returns = << >> THEN EmptyTimeSeries
    ELSE [dates |-> AsList([i \in 1..Len(returns) |-> StrfDate(returns[i].date)]),
          portfolio_values |-> OutputValues(PortfolioValueSeries(returns)),
          benchmark_values |->
              OutputValues(Scale(BenchmarkCumulative(returns, benchmark), Num(InitialValue)))]

\* line 112
GenerateTimeSeries ==
    /\ pc = "time_series"
    /\ UNCHANGED call
    /\ time_series' = GenerateTimeSeriesOf(portfolio_returns, benchmark_returns)
    /\ unrounded_values' = SeriesValues(PortfolioValueSeries(portfolio_returns))
    /\ pc' = "finish"
    /\ UNCHANGED << request, engine, individual_returns, target_weights, current_weights,
                    rebalance_dates, loop_i, portfolio_values, portfolio_returns,
                    benchmark_returns, clean_metrics, comparison_metrics, results, raised,
                    response, day_log >>

(***************************************************************************)
(* Rebalance Event Log (lines 277-298).                                    *)
(***************************************************************************)
\* 'estimated_cost': 0.1
EstimatedCost == Fin(1, 10)

\* faulty variant of GetRebalancingEvents: the initial allocation is reported too
GetRebalancingEventsWithFirst(start, end, frequency) ==
    IF frequency = "never" THEN << >>
    ELSE LET dates == RebalanceLoop(start, end, DailyIndex, frequency)
         IN  AsList([i \in 1..Len(dates) |->
                 [date |-> StrfDate(dates[i]),
                  type |-> frequency \o "_rebalance",
                  estimated_cost |-> EstimatedCost]])

\* _get_rebalancing_events, lines 277-298
GetRebalancingEvents(start, end, frequency) ==
    IF frequency = "never" THEN << >>
    ELSE LET dates == RebalanceLoop(start, end, DailyIndex, frequency)
         IN  AsList([i \in 1..(Len(dates) - 1) |->
                 [date |-> StrfDate(dates[i + 1]),
                  type |-> frequency \o "_rebalance",
                  estimated_cost |-> EstimatedCost]])

(***************************************************************************)
(* Result Sanitizer (lines 22-45) on the result's shape.                   *)
(***************************************************************************)
\* faulty variant of CleanFloat: an infinity is turned into NaN
CleanFloatInfToNaN(x) == IF IsNaN(x) THEN Num(0) ELSE IF IsInf(x) THEN NaN ELSE x

\* a float leaf: NaN and the infinities become 0.0
CleanFloat(x) == IF IsNaN(x) \/ IsInf(x) THEN Num(0) ELSE x

CleanList(values) == AsList([i \in 1..Len(values) |-> CleanFloat(values[i])])

CleanResults(r) ==
    [r EXCEPT
        !.performance_metrics = [m \in DOMAIN r.performance_metrics |->
                                    CleanFloat(r.performance_metrics[m])],
        !.time_series = [r.time_series EXCEPT
                            !.portfolio_values = CleanList(r.time_series.portfolio_values),
                            !.benchmark_values = CleanList(r.time_series.benchmark_values)],
        !.portfolio_composition =
            AsList([i \in 1..Len(r.portfolio_composition) |->
                [r.portfolio_composition[i] EXCEPT !.weight = CleanFloat(@)]]),
        !.rebalancing_events =
            AsList([i \in 1..Len(r.rebalancing_events) |->
                [r.rebalancing_events[i] EXCEPT !.estimated_cost = CleanFloat(@)]])]

\* lines 124-139: the result before sanitizing
BuildResults(eng, metrics, comparison, series, returns) ==
    [kind |-> "normal",
     error |-> "",
     performance_metrics |->
        [annual_return |-> Round2(Mul(metrics["Annual return"], Num(100))),
         volatility |-> Round2(Mul(metrics["Annual volatility"], Num(100))),
         sharpe_ratio |-> Round3(metrics["Sharpe ratio"]),
         max_drawdown |-> Round2(Mul(metrics["Max drawdown"], Num(100))),
         sortino_ratio |-> Round3(metrics["Sortino ratio"]),
         total_return |-> Round2(TotalReturnPercent(returns)),
         benchmark_return |-> comparison.benchmark_return,
         excess_return |-> comparison.excess_return,
         beta |-> comparison.beta,
         alpha |-> comparison.alpha],
     time_series |-> series,
     portfolio_composition |-> GetPortfolioComposition(eng.portfolio_mix),
     rebalancing_events |-> GetRebalancingEvents(eng.start_date, eng.end_date,
                                                 eng.rebalance_frequency),
     rebalancing_frequency |-> eng.rebalance_frequency]

\* lines 115-142
FinishBacktest ==
    /\ pc = "finish"
    /\ UNCHANGED call
    /\ results' = CleanResults(BuildResults(engine, clean_metrics, comparison_metrics,
                                            time_series, portfolio_returns))
    /\ pc' = "returned"
    /\ UNCHANGED << request, engine, individual_returns, target_weights, current_weights,
                    rebalance_dates, loop_i, portfolio_values, portfolio_returns,
                    benchmark_returns, clean_metrics, comparison_metrics, time_series,
                    unrounded_values, raised, response, day_log >>

(***************************************************************************)
(* views.run_portfolio_analysis: the answer (lines 99-110).                *)
(***************************************************************************)
Respond ==
    /\ pc \in {"returned", "raised"}
    /\ UNCHANGED call
    /\ IF pc = "returned"
       THEN response' = [code |-> 200, keys |-> {"status", "results"}, error |-> << >>,
                         status |-> "completed", results |-> results]
       ELSE response' = ErrorResponse(500, <<"Backtest failed: ">> \o raised)
    /\ pc' = "responded"
    /\ UNCHANGED << request, engine, individual_returns, target_weights, current_weights,
                    rebalance_dates, loop_i, portfolio_values, portfolio_returns,
                    benchmark_returns, clean_metrics, comparison_metrics, time_series,
                    unrounded_values, results, raised, day_log >>

Next ==
    \/ Validate
    \/ RunBacktestStart
    \/ ApplyRebalancingLogic
    \/ SimulateDay
    \/ FinishRebalancedReturns
    \/ CheckBlendAndGetBenchmark
    \/ PerfStats
    \/ ComparisonMetrics
    \/ GenerateTimeSeries
    \/ FinishBacktest
    \/ Respond

Spec == Init /\ [][Next]_vars

(***************************************************************************)
(* Methods of the engine called on their own, on arguments drawn from      *)
(* bounded sets.  `call` is the frame of the call: the method, its         *)
(* arguments, its local variables, the position in it and its return value. *)
(***************************************************************************)
\* the largest number of items of a list or dict handed to _clean_results
MaxItems == 2

\* a value handed to _clean_results: t is its Python type, v its number, s its
\* text, keys the keys of a dict in insertion order, items the values it holds
Node(t, v, s, keys, items) == [t |-> t, v |-> v, s |-> s, keys |-> keys, items |-> items]

FloatLeaf(x) == Node("float", x, "", << >>, << >>)

NumpyFloatLeaf(x) == Node("np_float", x, "", << >>, << >>)

IntLeaf(x) == Node("int", x, "", << >>, << >>)

NumpyIntLeaf(x) == Node("np_int", x, "", << >>, << >>)

StrLeaf(s) == Node("str", Num(0), s, << >>, << >>)

NoneLeaf == Node("none", Num(0), "", << >>, << >>)

ListOf(items) == Node("list", Num(0), "", << >>, items)

DictKeyNames == <<"a", "b", "c", "d">>

\* the dict whose i-th key holds the i-th item
DictOf(items) == Node("dict", Num(0), "", SubSeq(DictKeyNames, 1, Len(items)), items)

Leaves ==
    {FloatLeaf(x) : x \in {Fin(1, 8), NaN, PInf, NInf}}
    \cup {NumpyFloatLeaf(x) : x \in {Fin(1, 4), NaN}}
    \cup {IntLeaf(Num(7)), NumpyIntLeaf(Num(7)), StrLeaf("nan"), NoneLeaf}

\* leaves, the lists and dicts of leaves, and each of those inside one more list
\* or dict
FlatTrees ==
    Leaves \cup {ListOf(q) : q \in SeqsUpTo(Leaves, MaxItems)}
           \cup {DictOf(q) : q \in SeqsUpTo(Leaves, MaxItems)}

Trees == FlatTrees \cup {ListOf(<<x>>) : x \in FlatTrees} \cup {DictOf(<<x>>) : x \in FlatTrees}

\* _clean_results(data), lines 26-45, branch by branch
RECURSIVE CleanTree(_)
CleanTree(data) ==
    CASE data.t \in {"dict", "list"} ->
            [data EXCEPT !.items = AsList([i \in 1..Len(data.items) |->
                                              CleanTree(data.items[i])])]
      [] data.t \in {"float", "np_float"} -> FloatLeaf(CleanFloat(data.v))
      [] data.t \in {"int", "np_int"} -> IntLeaf(data.v)
      [] OTHER -> data

\* the state of run_portfolio_analysis before it reads the request
NotStarted ==
    /\ pc = "request"
    /\ engine = NoEngine
    /\ individual_returns = EmptyFrame
    /\ target_weights = << >>
    /\ current_weights = << >>
    /\ rebalance_dates = << >>
    /\ loop_i = 0
    /\ portfolio_values = << >>
    /\ portfolio_returns = << >>
    /\ benchmark_returns = << >>
    /\ clean_metrics = << >>
    /\ comparison_metrics = << >>
    /\ time_series = << >>
    /\ unrounded_values = << >>
    /\ results = NoResults
    /\ raised = << >>
    /\ response = NoResponse
    /\ day_log = << >>

\* no request is being served while a method is called on its own
NoRequest ==
    [portfolios |-> << >>, benchmark_id |-> NoBenchmark, rebalance_frequency |-> "never",
     start_date |-> NoDate, end_date |-> NoDate]

requestVars ==
    << request, pc, engine, individual_returns, target_weights, current_weights,
       rebalance_dates, loop_i, portfolio_values, portfolio_returns, benchmark_returns,
       clean_metrics, comparison_metrics, time_series, unrounded_values,
       results, raised, response, day_log >>

CleanResultsCalls == [method : {"_clean_results"}, at : {"entry"}, data : Trees, ret : {NoneLeaf}]

\* _clean_results(data) runs and returns
CallCleanResults ==
    /\ call.method = "_clean_results"
    /\ call.at = "entry"
    /\ call' = [call EXCEPT !.at = "return", !.ret = CleanTree(call.data)]
    /\ UNCHANGED requestVars

\* the dates of the series handed to a method called on its own
UnitDates == {Jan30, Jan31, Feb28}

\* every return series over a subset of the dates, with values from the set
SeriesOver(dates, values) ==
    UNION {{AsList([i \in 1..Len(SortDates(S)) |->
                       [date |-> SortDates(S)[i], v |-> f[SortDates(S)[i]]]]) :
               f \in [S -> values]} : S \in SUBSET dates}

ComparisonMetricsCalls ==
    [method : {"_calculate_comparison_metrics"}, at : {"entry"},
     portfolio_returns : SeriesOver(UnitDates, {Fin(1, 4), NaN}),
     benchmark_returns : SeriesOver(UnitDates, {Fin(-1, 2), NaN}),
     ret : {[benchmark_return |-> NaN, excess_return |-> NaN, beta |-> NaN, alpha |-> NaN]}]

\* _calculate_comparison_metrics(portfolio_returns, benchmark_returns) runs and returns
CallComparisonMetrics ==
    /\ call.method = "_calculate_comparison_metrics"
    /\ call.at = "entry"
    /\ \E ba \in BetaAlphaSamples :
          call' = [call EXCEPT !.at = "return",
                               !.ret = CalculateComparisonMetrics(call.portfolio_returns,
                                                                  call.benchmark_returns, ba)]
    /\ UNCHANGED requestVars

\* the date indexes handed to _get_rebalancing_dates: every non-empty set of the
\* dates of the price table, in increasing order
DateIndexes ==
    {SortDates(S) : S \in SUBSET {Jan29, Jan30, Jan31, Feb28, Apr30, Jul30, Jan30Y2, Jan31Y2}}
    \ {<< >>}

RebalancingDatesCalls ==
    [method : {"_get_rebalancing_dates"}, at : {"entry"}, date_index : DateIndexes,
     rebalance_frequency : Frequencies, current_date : {NoDate}, end_date : {NoDate},
     rebalance_dates : {<< >>}]

\* lines 251-257: `never` returns at once, any other policy enters the loop
CallRebalancingDates ==
    /\ call.method = "_get_rebalancing_dates"
    /\ call.at = "entry"
    /\ IF call.rebalance_frequency = "never"
       THEN call' = [call EXCEPT !.at = "return"]
       ELSE call' = [call EXCEPT !.at = "loop",
                                 !.current_date = call.date_index[1],
                                 !.end_date = call.date_index[Len(call.date_index)]]
    /\ UNCHANGED requestVars

\* faulty variant of KeepIfInIndex: every stepped date is kept
KeepAlways(dates, current_date, date_index) == Append(dates, current_date)

\* lines 260-261: if current_date in date_index: rebalance_dates.append(current_date)
KeepIfInIndex(dates, current_date, date_index) ==
    IF current_date \in Range(date_index) THEN Append(dates, current_date) ELSE dates

\* one iteration of the while loop, lines 259-273: the date is stepped by the
\* policy's period, and a policy without a period breaks the loop
RebalancingDatesStep ==
    /\ call.method = "_get_rebalancing_dates"
    /\ call.at = "loop"
    /\ DateLe(call.current_date, call.end_date)
    /\ LET kept == KeepIfInIndex(call.rebalance_dates, call.current_date, call.date_index)
       IN  IF PeriodMonths(call.rebalance_frequency) = 0
           THEN call' = [call EXCEPT !.rebalance_dates = kept, !.at = "return"]
           ELSE call' = [call EXCEPT
                            !.rebalance_dates = kept,
                            !.current_date = AddMonths(call.current_date,
                                                       PeriodMonths(call.rebalance_frequency))]
    /\ UNCHANGED requestVars

\* the loop condition fails, line 275 returns
RebalancingDatesExit ==
    /\ call.method = "_get_rebalancing_dates"
    /\ call.at = "loop"
    /\ ~DateLe(call.current_date, call.end_date)
    /\ call' = [call EXCEPT !.at = "return"]
    /\ UNCHANGED requestVars

\* the (start_date, end_date) of the engine _get_single_portfolio_returns is
\* called on; the last end date lies after every effective date
UnitDateRanges == {Jan29, Jan31} \X {Jan31, Jan31Y2, <<2024, 6, 30>>}

SinglePortfolioReturnsCalls ==
    [method : {"_get_single_portfolio_returns"}, at : {"entry"}, portfolio_id : RequestIds,
     start_date : {r[1] : r \in UnitDateRanges}, end_date : {r[2] : r \in UnitDateRanges},
     ret : {<< >>}]

\* _get_single_portfolio_returns(portfolio_id) runs and returns
CallSinglePortfolioReturns ==
    /\ call.method = "_get_single_portfolio_returns"
    /\ call.at = "entry"
    /\ call' = [call EXCEPT !.at = "return",
                            !.ret = GetSinglePortfolioReturns(call.portfolio_id,
                                                              call.start_date, call.end_date)]
    /\ UNCHANGED requestVars

\* largest number of price observations handed to the return computation
MaxPrices == 3

\* the ordered price observations of one asset: the first n dates of the price
\* table, each with an adjusted_close >= 0
PriceSequences ==
    LET dates == <<Jan29, Jan30, Jan31, Feb28, Apr30, Jul30, Jan30Y2, Jan31Y2>>
    IN  UNION {{AsList([t \in 1..n |-> [date |-> dates[t], adjusted_close |-> f[t]]]) :
                  f \in [1..n -> {Num(0), Num(50), Num(100)}]} : n \in 0..MaxPrices}

PctChangeCalls ==
    [method : {"pct_change().dropna()"}, at : {"entry"}, prices : PriceSequences, ret : {<< >>}]

\* returns = price_series.pct_change().dropna() runs on the price observations
CallPctChange ==
    /\ call.method = "pct_change().dropna()"
    /\ call.at = "entry"
    /\ call' = [call EXCEPT !.at = "return", !.ret = AssetReturns(call.prices)]
    /\ UNCHANGED requestVars

UnitInit ==
    /\ request = NoRequest
    /\ NotStarted
    /\ call \in CleanResultsCalls \cup ComparisonMetricsCalls \cup RebalancingDatesCalls
                \cup SinglePortfolioReturnsCalls \cup PctChangeCalls

UnitNext ==
    \/ CallCleanResults
    \/ CallComparisonMetrics
    \/ CallRebalancingDates
    \/ RebalancingDatesStep
    \/ RebalancingDatesExit
    \/ CallSinglePortfolioReturns
    \/ CallPctChange

UnitSpec == UnitInit /\ [][UnitNext]_vars

\* the steps of a running _get_rebalancing_dates call
RebalancingDatesNext ==
    \/ CallRebalancingDates
    \/ RebalancingDatesStep
    \/ RebalancingDatesExit

\* a call of _get_rebalancing_dates keeps running until it returns
FairUnitSpec == UnitSpec /\ WF_vars(RebalancingDatesNext)

(***************************************************************************)
(* Properties.                                                             *)
(***************************************************************************)
PeriodicPolicies == {"monthly", "quarterly", "semi_annually", "annually"}

\* every entry of the engine's mix carries a finite weight
FiniteMix ==
    \A i \in 1..Len(engine.portfolio_mix) : IsFinite(engine.portfolio_mix[i].weight)

\* weight / 100 of the entry that sets the target weight of portfolio id
MixTargetWeight(id) ==
    LET mix == engine.portfolio_mix
        last == CHOOSE i \in 1..Len(mix) :
                    /\ mix[i].portfolio_id = id
                    /\ \A j \in (i + 1)..Len(mix) : mix[j].portfolio_id # id
    IN  Div(mix[last].weight, Num(100))

MixTargetVector == [id \in Range(individual_returns.ids) |-> MixTargetWeight(id)]

\* the fixed-weight sum  SUM_i target_weight_i * r_i[t]  on row t of the return table
FixedWeightSum(t) ==
    LET ids == individual_returns.ids
    IN  SumFrom(Num(0), AsList([j \in 1..Len(ids) |->
                    Mul(MixTargetWeight(ids[j]), individual_returns.col[ids[j]][t])]))

\* the simulator or the `never` blend has taken the target weights
WeightsTaken == DOMAIN target_weights # {}

C2_ResetToTargetOnSchedule ==
    (engine.rebalance_frequency \in PeriodicPolicies /\ WeightsTaken) =>
        /\ (pc = "simulate" /\ loop_i = 1) => current_weights = MixTargetVector
        /\ \A k \in 1..Len(day_log) :
              day_log[k].date \in Range(rebalance_dates) =>
                  /\ day_log[k].used = MixTargetVector
                  /\ day_log[k].day_return = FixedWeightSum(k + 1)

\* a rebalance date reached with drifted weights, on a day with a return
C2_Witness ==
    /\ engine.rebalance_frequency \in PeriodicPolicies
    /\ FiniteMix
    /\ \E k \in 1..Len(day_log) :
          /\ day_log[k].date \in Range(rebalance_dates)
          /\ day_log[k].before # MixTargetVector
          /\ day_log[k].day_return # Num(0)

\* C3: when no scheduled rebalance date other than the first index date lies
\* in the index, a periodic policy gives the same blended series as `never`
\* (same dates, same values).
C3_PeriodicWithoutRebalanceEqualsNever ==
    (/\ engine.rebalance_frequency \in PeriodicPolicies
     /\ pc = "blended"
     /\ FiniteMix
     /\ Range(rebalance_dates) \subseteq {individual_returns.index[1]}) =>
        portfolio_returns = NeverCombined(individual_returns, target_weights)

\* C4: the first element of a non-empty portfolio_values is the initial value.
C4_FirstValueIsInitialValue ==
    (pc = "responded" /\ response.code = 200 /\ FiniteMix
     /\ response.results.time_series.portfolio_values # << >>) =>
        response.results.time_series.portfolio_values[1] = Num(100000)

\* every value of the blended series is finite
FiniteBlend == \A t \in 1..Len(portfolio_returns) : IsFinite(portfolio_returns[t].v)

\* C5: the value series grows by the blended return of each date: for t > 0,
\* value[t] = value[t-1] * (1 + blended_return[t]) before rounding, and the
\* value returned is that value rounded to 2 decimals (finite values).
C5_ValuesCompoundReturns ==
    (unrounded_values # << >> /\ FiniteBlend) =>
        /\ Len(unrounded_values) = Len(portfolio_returns)
        /\ Len(time_series.portfolio_values) = Len(portfolio_returns)
        /\ \A t \in 2..Len(unrounded_values) :
              unrounded_values[t] =
                  Mul(unrounded_values[t - 1], Add(Num(1), portfolio_returns[t].v))
        /\ \A t \in 1..Len(unrounded_values) :
              time_series.portfolio_values[t] = Round2(unrounded_values[t])

\* a value series of three dates or more with two returns in a row
C5_Witness ==
    /\ FiniteBlend
    /\ Len(unrounded_values) >= 3
    /\ \E t \in 2..Len(unrounded_values) :
          /\ portfolio_returns[t].v # Num(0)
          /\ portfolio_returns[t - 1].v # Num(0)
          /\ unrounded_values[t] # Num(0)

\* the numeric leaves of a result
ResultNumbers(r) ==
    {r.performance_metrics[m] : m \in DOMAIN r.performance_metrics}
    \cup Range(r.time_series.portfolio_values)
    \cup Range(r.time_series.benchmark_values)
    \cup {r.portfolio_composition[i].weight : i \in 1..Len(r.portfolio_composition)}
    \cup {r.rebalancing_events[i].estimated_cost : i \in 1..Len(r.rebalancing_events)}

\* C6: no NaN and no infinity among the numeric leaves of a returned result.
C6_NoNaNInResults ==
    (pc = "responded" /\ response.code = 200) =>
        \A x \in ResultNumbers(response.results) : IsFinite(x)

\* the asset has at least two prices in the engine's date range
HasTwoPrices(asset) ==
    /\ asset \in AssetSymbols
    /\ Cardinality({i \in 1..Len(HistoricalPrices[asset]) :
                      /\ DateLe(engine.start_date, HistoricalPrices[asset][i].date)
                      /\ DateLe(HistoricalPrices[asset][i].date, engine.end_date)}) >= 2

\* the portfolio has price data: it exists and one of its mappings in effect
\* by the end date names an asset with two prices or more in the range
HasPriceData(id) ==
    /\ id \in PortfolioIds
    /\ \E i \in 1..Len(AssetMappings) :
          /\ AssetMappings[i].portfolio = id
          /\ DateLe(AssetMappings[i].effective_date, engine.end_date)
          /\ HasTwoPrices(AssetMappings[i].asset)

\* run_backtest was called and no portfolio of the mix has price data
NoPortfolioData ==
    /\ engine.constructed
    /\ \A i \in 1..Len(engine.portfolio_mix) :
          ~HasPriceData(engine.portfolio_mix[i].portfolio_id)

\* every entry of the mix carries a weight
EveryEntryHasWeight ==
    \A i \in 1..Len(engine.portfolio_mix) : engine.portfolio_mix[i].weight # Missing

RequestIsValid ==
    /\ request.portfolios # << >>
    /\ request.benchmark_id # NoBenchmark
    /\ request.benchmark_id \in DOMAIN Benchmarks
    /\ request.start_date # NoDate
    /\ request.end_date # NoDate
    /\ LET total == TotalWeight(request.portfolios)
       IN  /\ IsFinite(total)
           /\ ~Gt(total, Fin(1001, 10))
           /\ ~Gt(Fin(999, 10), total)

\* C8: the engine is constructed only for a request that passes every
\* validation (weights summing to 100 within 0.1 included), and every other
\* request is answered 400.
C8_EngineOnlyForValidRequests ==
    /\ engine.constructed => RequestIsValid
    /\ (pc = "responded" /\ ~RequestIsValid) => response.code = 400

\* the sum of a weight vector
WeightSum(weights) ==
    LET keys == SelectSeq(individual_returns.ids, LAMBDA id : id \in DOMAIN weights)
    IN  SumFrom(Num(0), AsList([j \in 1..Len(keys) |-> weights[keys[j]]]))

\* C9: the weight vector sums to 1 at initialisation and right after every
\* reset to the target weights.
C9_WeightsSumToOne ==
    (WeightsTaken /\ FiniteMix /\ engine.rebalance_frequency # "never") =>
        /\ (pc = "simulate" /\ loop_i = 1) => WeightSum(current_weights) = Num(1)
        /\ \A k \in 1..Len(day_log) :
              day_log[k].reset => WeightSum(day_log[k].used) = Num(1)

\* C10: when run_backtest fails it returns nothing and raises one exception
\* 'Backtest failed: <cause>', which the handler answers with status 500, an
\* error message and no results.
C10_FailureIsAtomic ==
    /\ pc = "raised" =>
          /\ results = NoResults
          /\ Len(raised) = 2
          /\ raised[1] = "Backtest failed: "
          /\ raised[2] # ""
    /\ (pc = "responded" /\ raised # << >>) =>
          /\ results = NoResults
          /\ raised[1] = "Backtest failed: "
          /\ response.code = 500
          /\ response.keys = {"error"}
          /\ response.error = <<"Backtest failed: ">> \o raised
          /\ response.results = NoResults

\* a failure after the return table was built, answered by the handler
C10_Witness ==
    /\ pc = "responded"
    /\ raised # << >>
    /\ individual_returns.index # << >>
    /\ response.code = 500

\* C11: _clean_results is idempotent: cleaning the tree it returned gives that
\* tree again, for every tree of dicts, lists, numbers, strings and None.
C11_CleanResultsIdempotent ==
    (call.method = "_clean_results" /\ call.at = "return") =>
        CleanTree(call.ret) = call.ret

\* a returned tree in which a NaN or infinite leaf inside a nested container was
\* replaced
C11_Witness ==
    /\ call.method = "_clean_results"
    /\ call.at = "return"
    /\ call.ret # call.data
    /\ call.data.t = "dict"
    /\ Len(call.data.items) = 1
    /\ call.data.items[1].t = "list"
    /\ \E i \in 1..Len(call.data.items[1].items) : IsInf(call.data.items[1].items[i].v)

\* the dates two series have in common
CommonDates(a, b) == SeriesDates(a) \cap SeriesDates(b)

\* C12: _calculate_comparison_metrics returns benchmark_return, excess_return,
\* beta and alpha all 0 when the portfolio series is empty, the benchmark series
\* is empty, or the two series have fewer than 2 dates in common.
C12_ComparisonZeroWithoutOverlap ==
    (/\ call.method = "_calculate_comparison_metrics"
     /\ call.at = "return"
     /\ \/ call.portfolio_returns = << >>
        \/ call.benchmark_returns = << >>
        \/ Cardinality(CommonDates(call.portfolio_returns, call.benchmark_returns)) < 2) =>
        /\ DOMAIN call.ret = {"benchmark_return", "excess_return", "beta", "alpha"}
        /\ \A k \in DOMAIN call.ret : call.ret[k] = Num(0)

\* a call returned for two non-empty series with exactly one date in common, on
\* which both have a return
C12_Witness ==
    /\ call.method = "_calculate_comparison_metrics"
    /\ call.at = "return"
    /\ Len(call.portfolio_returns) = 2
    /\ Len(call.benchmark_returns) = 2
    /\ \E d \in UnitDates :
          /\ CommonDates(call.portfolio_returns, call.benchmark_returns) = {d}
          /\ ~IsNaN(call.portfolio_returns[ValueAt(call.portfolio_returns, d)].v)
          /\ ~IsNaN(call.benchmark_returns[ValueAt(call.benchmark_returns, d)].v)

\* the k-th date of a schedule: the start date stepped k times by the period
RECURSIVE SteppedDate(_, _, _)
SteppedDate(start, months, k) ==
    IF k = 0 THEN start ELSE AddMonths(SteppedDate(start, months, k - 1), months)

\* the k-th scheduled date of the engine's policy over its date range
EngineSchedule(k) ==
    SteppedDate(engine.start_date, PeriodMonths(engine.rebalance_frequency), k)

\* C13: _get_rebalancing_events returns no event for policy `never`; for a
\* periodic policy it returns one event for each scheduled date after the first
\* (start_date stepped by the period, up to end_date), in increasing date order,
\* each typed '<policy>_rebalance'.
C13_EventsFollowSchedule ==
    (results.kind = "normal") =>
        LET events == results.rebalancing_events
        IN  /\ engine.rebalance_frequency = "never" => events = << >>
            /\ engine.rebalance_frequency \in PeriodicPolicies =>
                  /\ \A k \in 1..Len(events) :
                        /\ events[k].date = StrfDate(EngineSchedule(k))
                        /\ events[k].type = engine.rebalance_frequency \o "_rebalance"
                        /\ DateLt(EngineSchedule(k - 1), EngineSchedule(k))
                        /\ DateLe(EngineSchedule(k), engine.end_date)
                  /\ ~DateLe(EngineSchedule(Len(events) + 1), engine.end_date)

\* a monthly schedule from the 31st of January: the 28th of each following month
C13_Witness ==
    /\ results.kind = "normal"
    /\ engine.rebalance_frequency = "monthly"
    /\ Len(results.rebalancing_events) = 12
    /\ results.rebalancing_events[1].date = "2023-02-28"
    /\ results.rebalancing_events[2].date = "2023-03-28"
    /\ results.rebalancing_events[12].date = "2024-01-28"

\* _generate_time_series has returned for the blended and benchmark series of
\* the state
TimeSeriesGenerated ==
    \/ pc = "finish"
    \/ pc \in {"returned", "responded"} /\ results.kind = "normal"

\* C14: when the benchmark return series is empty and the blended series is not,
\* benchmark_values has one entry per blend date, each equal to the initial
\* value 100000.
C14_FlatBenchmarkLine ==
    (TimeSeriesGenerated /\ benchmark_returns = << >> /\ portfolio_returns # << >>) =>
        /\ Len(time_series.benchmark_values) = Len(portfolio_returns)
        /\ Len(time_series.dates) = Len(portfolio_returns)
        /\ \A i \in 1..Len(portfolio_returns) :
              /\ time_series.benchmark_values[i] = Num(100000)
              /\ time_series.dates[i] = StrfDate(portfolio_returns[i].date)

\* a time series of several dates generated without benchmark returns, whose
\* blend values move
C14_Witness ==
    /\ TimeSeriesGenerated
    /\ benchmark_returns = << >>
    /\ Len(portfolio_returns) >= 3
    /\ Len(time_series.benchmark_values) >= 3
    /\ time_series.portfolio_values[1] # time_series.portfolio_values[2]

\* the weight vector the simulator holds after the k-th simulated day
WeightsAfterDay(k) ==
    IF k < Len(day_log) THEN day_log[k + 1].before ELSE current_weights

\* C15: after a day's blended return is computed, each weight becomes
\* weight * (1 + r_i[t]) / (1 + blended_return) when the blended return is not 0
\* and the vector is left unchanged when it is 0; the next date is computed with
\* these weights unless it is a scheduled rebalance date.
C15_WeightsDriftAfterEachDay ==
    \A k \in 1..Len(day_log) :
        LET day == day_log[k]
            after == WeightsAfterDay(k)
        IN  /\ DOMAIN after = DOMAIN day.used
            /\ day.day_return # Num(0) =>
                  \A id \in DOMAIN after :
                      after[id] = Div(Mul(day.used[id],
                                          Add(Num(1), individual_returns.col[id][k + 1])),
                                      Add(Num(1), day.day_return))
            /\ day.day_return = Num(0) => after = day.used
            /\ (k < Len(day_log) /\ day_log[k + 1].date \notin Range(rebalance_dates)) =>
                  day_log[k + 1].used = after

\* a day with a return made the weights drift, and the next date, not a scheduled
\* one, was computed with the drifted weights and left them alone (return 0)
C15_Witness ==
    /\ FiniteMix
    /\ \E k \in 1..Len(day_log) :
          /\ k < Len(day_log)
          /\ day_log[k].day_return # Num(0)
          /\ day_log[k + 1].before # day_log[k].used
          /\ day_log[k + 1].date \notin Range(rebalance_dates)
          /\ day_log[k + 1].day_return = Num(0)
          /\ WeightsAfterDay(k + 1) = day_log[k + 1].used
          /\ WeightsAfterDay(k + 1) # target_weights

\* the period of a policy in months
PolicyMonths(frequency) ==
    CASE frequency = "monthly" -> 1
      [] frequency = "quarterly" -> 3
      [] frequency = "semi_annually" -> 6
      [] frequency = "annually" -> 12

\* the dates d_0, d_1, ... of a schedule from date `first` that are <= last, as a
\* set with their position: d_0 = first, d_(k+1) = d_k plus the period
RECURSIVE ScheduleUpTo(_, _, _)
ScheduleUpTo(first, last, months) ==
    IF DateLe(first, last)
    THEN {first} \cup ScheduleUpTo(AddMonths(first, months), last, months)
    ELSE {}

\* C16: for a periodic policy _get_rebalancing_dates returns exactly the dates
\* d_0 = first index date, d_(k+1) = d_k + period that are <= the last index date
\* and members of the index, in strictly increasing order, the first index date
\* among them; for `never` it returns nothing.
C16_ScheduleIsSteppedDatesInIndex ==
    (call.method = "_get_rebalancing_dates" /\ call.at = "return") =>
        LET index == call.date_index
            dates == call.rebalance_dates
        IN  /\ call.rebalance_frequency = "never" => dates = << >>
            /\ call.rebalance_frequency \in PeriodicPolicies =>
                  /\ Range(dates) =
                        ScheduleUpTo(index[1], index[Len(index)],
                                     PolicyMonths(call.rebalance_frequency))
                        \cap Range(index)
                  /\ \A i \in 1..(Len(dates) - 1) : DateLt(dates[i], dates[i + 1])
                  /\ dates # << >> /\ dates[1] = index[1]
            /\ dates = GetRebalancingDates(index, call.rebalance_frequency)

\* a returned schedule that keeps some stepped dates and leaves out others that
\* are not in the index
C16_Witness ==
    /\ call.method = "_get_rebalancing_dates"
    /\ call.at = "return"
    /\ call.rebalance_frequency \in PeriodicPolicies
    /\ Len(call.rebalance_dates) >= 2
    /\ Range(call.rebalance_dates) # Range(call.date_index)
    /\ ScheduleUpTo(call.date_index[1], call.date_index[Len(call.date_index)],
                    PolicyMonths(call.rebalance_frequency))
          \ Range(call.date_index) # {}

\* C17: the schedule loop of _get_rebalancing_dates terminates for every
\* non-empty index and every value of rebalance_frequency, known or not: an
\* iteration that stays in the loop strictly increases the stepped date, and
\* every call returns.
C17_ScheduleLoopTerminates ==
    /\ [][(call.method = "_get_rebalancing_dates" /\ call.at = "loop" /\ call'.at = "loop")
             => DateLt(call.current_date, call'.current_date)]_vars
    /\ (call.method = "_get_rebalancing_dates") ~> (call.at = "return")

\* a call with a frequency the loop has no period for has returned from an index
\* of several dates, after one iteration
C17_Witness ==
    /\ call.method = "_get_rebalancing_dates"
    /\ call.at = "return"
    /\ call.rebalance_frequency \notin PeriodicPolicies \cup {"never"}
    /\ Len(call.date_index) >= 3
    /\ call.rebalance_dates = <<call.date_index[1]>>
    /\ call.current_date = call.date_index[1]


\* the simulator of _calculate_rebalanced_returns has run to its end
SimulatorReturned ==
    /\ engine.rebalance_frequency \in PeriodicPolicies
    /\ WeightsTaken
    /\ pc \notin {"apply_rebalancing", "simulate", "raised"}

\* the blended return of simulated day k: SUM_i current_weight_i * r_i[t], with
\* the weights the day was computed with
BlendedReturnOfDay(k) ==
    LET ids == individual_returns.ids
    IN  SumFrom(Num(0), AsList([j \in 1..Len(ids) |->
                    Mul(individual_returns.col[ids[j]][k + 1], day_log[k].used[ids[j]])]))

\* C18: under a periodic policy the simulator starts from the target weights
\* and the value 100000 at the first date, and for an index of N dates it
\* outputs exactly N-1 entries, one per date after the first, each that date's
\* blended return SUM_i current_weight_i * r_i[t]; the first date is not in the
\* output and N = 1 gives the empty series.
C18_SimulatorOutputsOneReturnPerLaterDate ==
    /\ (engine.rebalance_frequency \in PeriodicPolicies /\ pc = "simulate" /\ loop_i = 1) =>
          /\ current_weights = target_weights
          /\ portfolio_values[1] = Num(StartingValue)
    /\ SimulatorReturned =>
          LET index == individual_returns.index
          IN  /\ Len(portfolio_returns) = Len(index) - 1
              /\ \A t \in 1..Len(portfolio_returns) :
                    /\ portfolio_returns[t].date = index[t + 1]
                    /\ portfolio_returns[t].v = BlendedReturnOfDay(t)


\* the mapping rows of the portfolio in effect by the end date whose asset
\* has price data in the range
ResolvedMappings(portfolio_id, start, end) ==
    {i \in 1..Len(AssetMappings) :
        /\ AssetMappings[i].portfolio = portfolio_id
        /\ DateLe(AssetMappings[i].effective_date, end)
        /\ AssetMappings[i].asset \in AssetSymbols
        /\ \E p \in Range(HistoricalPrices[AssetMappings[i].asset]) :
              DateLe(start, p.date) /\ DateLe(p.date, end)}

\* the prices of the asset in the range
RangePrices(asset, start, end) ==
    SelectSeq(HistoricalPrices[asset], LAMBDA p : DateLe(start, p.date) /\ DateLe(p.date, end))

\* the asset has a return on date d: d has a price and a price before it
HasReturnOn(asset, d, start, end) ==
    \E t \in 2..Len(RangePrices(asset, start, end)) : RangePrices(asset, start, end)[t].date = d

\* the asset's return on date d, 0 when it has none
AssetReturnOn(asset, d, start, end) ==
    LET prices == RangePrices(asset, start, end)
    IN  IF HasReturnOn(asset, d, start, end)
        THEN LET t == CHOOSE t \in 2..Len(prices) : prices[t].date = d
             IN  Sub(Div(prices[t].adjusted_close, prices[t - 1].adjusted_close), Num(1))
        ELSE Num(0)

\* SUM over the resolved mappings of mapping weight * the asset's return on d
PortfolioReturnOn(portfolio_id, d, start, end) ==
    SumFrom(Num(0), AsList([i \in 1..Len(AssetMappings) |->
        IF i \in ResolvedMappings(portfolio_id, start, end)
        THEN Mul(AssetMappings[i].weight,
                 AssetReturnOn(AssetMappings[i].asset, d, start, end))
        ELSE Num(0)]))

\* the dates of the price table
PriceDates == UNION {{p.date : p \in Range(HistoricalPrices[a])} : a \in AssetSymbols}

\* C19: the return series of a portfolio holds the dates on which one of its
\* resolved assets has a return, and its value on date d is the sum over the
\* mappings in effect by end_date whose asset has price data of mapping weight
\* * the asset's return on d (0 for an asset without a return on d); a
\* portfolio without a resolved asset, or an unknown id, returns an empty series.
C19_PortfolioReturnIsWeightedAssetSum ==
    (call.method = "_get_single_portfolio_returns" /\ call.at = "return") =>
        LET id == call.portfolio_id
            start == call.start_date
            end == call.end_date
            resolved == ResolvedMappings(id, start, end)
        IN  /\ SeriesDates(call.ret) =
                  {d \in PriceDates :
                      \E i \in resolved : HasReturnOn(AssetMappings[i].asset, d, start, end)}
            /\ \A t \in 1..Len(call.ret) :
                  call.ret[t].v = PortfolioReturnOn(id, call.ret[t].date, start, end)
            /\ \A t \in 1..(Len(call.ret) - 1) : DateLt(call.ret[t].date, call.ret[t + 1].date)
            /\ (resolved = {} \/ id \notin PortfolioIds) => call.ret = << >>

\* portfolio 2 over the whole range: on 2023-02-28 asset B has a return and
\* asset C has none, on 2023-01-31 both have one
C19_Witness ==
    /\ call.method = "_get_single_portfolio_returns"
    /\ call.at = "return"
    /\ call.portfolio_id = 2
    /\ Len(call.ret) = 3
    /\ call.ret[2] = [date |-> Jan31, v |-> Fin(-1, 4)]
    /\ call.ret[3] = [date |-> Feb28, v |-> Num(-1)]


\* C20: for N ordered price observations with adjusted_close >= 0 the return
\* computation yields exactly N-1 returns, r[t] = p[t]/p[t-1] - 1 for each
\* consecutive pair, dated by the later observation; N = 0 and N = 1 give an
\* empty series.
C20_OneReturnPerConsecutivePair ==
    (call.method = "pct_change().dropna()" /\ call.at = "return") =>
        LET prices == call.prices
            N == Len(prices)
        IN  /\ Len(call.ret) = (IF N = 0 THEN 0 ELSE N - 1)
            /\ \A t \in 1..Len(call.ret) :
                  /\ call.ret[t].date = prices[t + 1].date
                  /\ call.ret[t].v = Sub(Div(prices[t + 1].adjusted_close,
                                             prices[t].adjusted_close), Num(1))


\* C21: in every time series returned by run_backtest the arrays dates,
\* portfolio_values and benchmark_values have the same length, also when the
\* benchmark has returns on only some of the blend's dates.
C21_TimeSeriesArraysAligned ==
    (pc \in {"returned", "responded"} /\ results # NoResults) =>
        /\ Len(results.time_series.portfolio_values) = Len(results.time_series.dates)
        /\ Len(results.time_series.benchmark_values) = Len(results.time_series.dates)


\* every portfolio of the mix is a column of the return table
MixInColumns == DOMAIN target_weights \subseteq Range(individual_returns.ids)

\* no simulated day so far had a blended return of -1
NoTotalLoss == \A k \in 1..Len(day_log) : day_log[k].day_return # Num(-1)

\* C22: in the periodic simulator, after any sequence of daily steps the
\* current weights sum to the same total as the target weights, provided every
\* mix portfolio is a column of the return table and no day's blended return
\* is -1.
C22_DriftPreservesWeightSum ==
    (/\ engine.rebalance_frequency \in PeriodicPolicies
     /\ WeightsTaken
     /\ FiniteMix
     /\ MixInColumns
     /\ NoTotalLoss) =>
        /\ WeightSum(current_weights) = WeightSum(target_weights)
        /\ \A k \in 1..Len(day_log) :
              WeightSum(day_log[k].used) = WeightSum(target_weights)


\* C23: on every simulated day on which the drift update is executed
\* (day_return != 0) its divisor 1 + day_return is not zero.
C23_DriftNeverDividesByZero ==
    \A k \in 1..Len(day_log) :
        FloatNe(day_log[k].day_return, Num(0)) =>
            Add(Num(1), day_log[k].day_return) # Num(0)


\* the dates, as the result prints them, on which the simulator reset its
\* weight vector to the target weights (dates after the first index date)
SimulatorResetDates == {StrfDate(day_log[k].date) : k \in {j \in 1..Len(day_log) : day_log[j].reset}}

\* the dates listed in the rebalancing events of the result
EventDates == {results.rebalancing_events[i].date : i \in 1..Len(results.rebalancing_events)}

\* C24: in every result returned under a periodic policy, each date listed in
\* rebalancing_events is a date on which the simulator reset its weights to the
\* target weights, and each simulator reset after the first date is listed.
C24_EventsAgreeWithSimulation ==
    (/\ pc \in {"returned", "responded"}
     /\ results.kind = "normal"
     /\ engine.rebalance_frequency \in PeriodicPolicies) =>
        /\ EventDates \subseteq SimulatorResetDates
        /\ SimulatorResetDates \subseteq EventDates

====
